---------------------------- MODULE Spec2Model ----------------------------
(***************************************************************************)
(* Model of the Jira rich-text (ADF) to Markdown renderer of               *)
(* jira-read-ticket/scripts/jira.py.                                       *)
(*                                                                         *)
(* The renderer is a set of pure functions.  The state is one call         *)
(* (function name and arguments) and its outcome: pending, returned with   *)
(* a value, or raised.  Init draws the call from bounded sets of           *)
(* arguments; there is one action per function of the renderer, which      *)
(* runs the pending call to its outcome.                                   *)
(*                                                                         *)
(* Python values are tagged records, one field name per tag:               *)
(*   None          [t |-> "None"]                                          *)
(*   Str(s)        a str the code transforms; s is a sequence of           *)
(*                 characters, each a one-character string                 *)
(*   Name(a)       a str the code only compares (node and mark types)      *)
(*   Num(n)        an int                                                  *)
(*   List(xs)      a list                                                  *)
(*   Dict(kv)      a dict; kv is a function from keys to values            *)
(* A str returned by the renderer is a sequence of one-character strings,  *)
(* a list[str] is a sequence of those.                                     *)
(*                                                                         *)
(* The pagination loops of fetch_comments.py and fetch_assigned_tickets.py *)
(* are processes: their local variables are variables of the model, one    *)
(* action sends one request and handles the server's answer to it.  The    *)
(* answer is the server's choice.  The items of a page are left out: no    *)
(* variable of the loops depends on them.                                  *)
(***************************************************************************)
EXTENDS Integers, Sequences, FiniteSets, TLC

VARIABLES call, ret, start_at, max_results, request_mode, mode_index, last_error, sent

\* the local variables of the pagination loops, and the request last sent
fetch_vars == <<start_at, max_results, request_mode, mode_index, last_error, sent>>

vars == <<call, ret, fetch_vars>>

(***************************************************************************)
(* Bounds of the model.                                                    *)
(***************************************************************************)
MaxTextLen == 3
MaxMarks == 3
MaxInlines == 4
MaxHeadingInlines == 2
MaxItems == 3
MaxItemBlocks == 2
MaxRows == 2
MaxCells == 2
MaxListLevel == 1
MaxUnknownChildren == 3
MaxCodeChildren == 3
MaxTotal == 3
MaxPageSize == 2

(***************************************************************************)
(* Python values.                                                          *)
(***************************************************************************)
None == [t |-> "None"]
Str(s) == [t |-> "str", s |-> s]
Name(a) == [t |-> "name", a |-> a]
Num(n) == [t |-> "int", n |-> n]
List(xs) == [t |-> "list", xs |-> xs]
Dict(kv) == [t |-> "dict", kv |-> kv]

EmptyDict == Dict(<<>>)

IsDict(x) == x.t = "dict"
IsList(x) == x.t = "list"
IsNone(x) == x.t = "None"

\* dict.get(key): the value, or None when the key is absent
Get(d, key) == IF key \in DOMAIN d.kv THEN d.kv[key] ELSE None

\* dict.get(key, default)
GetDefault(d, key, default) == IF key \in DOMAIN d.kv THEN d.kv[key] ELSE default

\* bool(x)
Truthy(x) ==
    CASE x.t = "None" -> FALSE
      [] x.t = "str" -> x.s # <<>>
      [] x.t = "name" -> TRUE
      [] x.t = "int" -> x.n # 0
      [] x.t = "list" -> x.xs # <<>>
      [] x.t = "dict" -> DOMAIN x.kv # {}

\* x or y
Or(x, y) == IF Truthy(x) THEN x ELSE y

\* d.get("type") == name
TypeIs(d, name) == Get(d, "type") = Name(name)

(***************************************************************************)
(* str operations.                                                         *)
(***************************************************************************)
\* F(value), the value computed once and then held, as a local variable of
\* the code holds it
Bind(value, F(_)) == CHOOSE result \in {F(held) : held \in {value}} : TRUE

Whitespace == {" ", "\n", "\t"}

RECURSIVE ConcatFrom(_, _)
ConcatFrom(parts, i) ==
    IF i > Len(parts) THEN <<>> ELSE parts[i] \o ConcatFrom(parts, i + 1)

\* "".join(parts), and the concatenation of lists
Concat(parts) == Bind(parts \o <<>>, LAMBDA held : ConcatFrom(held, 1))

\* text.replace(old, new) for a one-character old
Replace(text, old, new) ==
    Bind(text \o <<>>, LAMBDA held :
        Concat([i \in 1..Len(held) |-> IF held[i] = old THEN new ELSE <<held[i]>>]))

\* text.rstrip()
RStrip(text) ==
    Bind(text \o <<>>, LAMBDA held :
        LET kept == {i \in 1..Len(held) : held[i] \notin Whitespace}
        IN  IF kept = {} THEN <<>>
            ELSE SubSeq(held, 1, CHOOSE i \in kept : \A j \in kept : j <= i))

LStrip(text) ==
    Bind(text \o <<>>, LAMBDA held :
        LET kept == {i \in 1..Len(held) : held[i] \notin Whitespace}
        IN  IF kept = {} THEN <<>>
            ELSE SubSeq(held, CHOOSE i \in kept : \A j \in kept : i <= j, Len(held)))

\* text.strip()
Strip(text) == LStrip(RStrip(text))

RECURSIVE Repeat(_, _)
\* text * n
Repeat(text, n) == IF n <= 0 THEN <<>> ELSE text \o Repeat(text, n - 1)

\* sep.join(parts)
Join(sep, parts) ==
    Bind(parts \o <<>>, LAMBDA held :
        Concat([i \in 1..Len(held) |-> IF i = 1 THEN held[i] ELSE sep \o held[i]]))

RECURSIVE SplitFrom(_, _, _)
\* the lines of text from position i on, line being the line read so far
SplitFrom(text, i, line) ==
    IF i > Len(text) THEN (IF line = <<>> THEN <<>> ELSE <<line>>)
    ELSE IF text[i] = "\n" THEN <<line>> \o SplitFrom(text, i + 1, <<>>)
    ELSE SplitFrom(text, i + 1, Append(line, text[i]))

\* text.splitlines()
SplitLines(text) == Bind(text \o <<>>, LAMBDA held : SplitFrom(held, 1, <<>>))

(***************************************************************************)
(* _escape_markdown and _apply_marks.                                      *)
(***************************************************************************)
\* The character U+0060 (grave accent), which a TLA+ string cannot hold.
Backtick == "BT"

MetaChars == <<Backtick, "*", "_", "~", "[", "]">>

RECURSIVE EscapeChars(_, _)
EscapeChars(text, chars) ==
    IF chars = <<>> THEN text
    ELSE EscapeChars(Replace(text, Head(chars), <<"\\", Head(chars)>>), Tail(chars))

\* A slip: the backslashes are doubled after the metacharacters were escaped.
EscapeMarkdownBackslashLast(text) ==
    Replace(EscapeChars(text, MetaChars), "\\", <<"\\", "\\">>)

EscapeMarkdown(text) ==
    EscapeChars(Replace(text, "\\", <<"\\", "\\">>), MetaChars)

(***************************************************************************)
(* Formatting marks of a text node.                                        *)
(***************************************************************************)
Mark(type) == Dict([type |-> Name(type)])
LinkMark(href) == Dict([type |-> Name("link"), attrs |-> Dict([href |-> Str(href)])])

\* one pass of the loop over the marks
WrapMark(value, mark) ==
    CASE TypeIs(mark, "strong") -> <<"*", "*">> \o value \o <<"*", "*">>
      [] TypeIs(mark, "em") -> <<"*">> \o value \o <<"*">>
      [] TypeIs(mark, "strike") -> <<"~", "~">> \o value \o <<"~", "~">>
      [] TypeIs(mark, "underline") ->
            <<"<", "u", ">">> \o value \o <<"<", "/", "u", ">">>
      [] OTHER -> value

RECURSIVE WrapMarks(_, _)
\* for mark in marks: value = <wrapped value>
WrapMarks(value, marks) ==
    IF marks = <<>> THEN value
    ELSE WrapMarks(WrapMark(value, Head(marks)), Tail(marks))

HasMark(marks, type) == \E i \in 1..Len(marks) : TypeIs(marks[i], type)

\* next((mark for mark in marks if mark.get("type") == "link"), None)
FirstLink(marks) ==
    IF HasMark(marks, "link")
    THEN marks[CHOOSE i \in 1..Len(marks) :
                  /\ TypeIs(marks[i], "link")
                  /\ \A j \in 1..(i - 1) : ~TypeIs(marks[j], "link")]
    ELSE None

WrapLink(value, marks) ==
    LET link == FirstLink(marks)
        href == Get(Or(Get(link, "attrs"), EmptyDict), "href")
    IN  IF Truthy(link) /\ Truthy(href)
        THEN <<"[">> \o value \o <<"]", "(">> \o href.s \o <<")">>
        ELSE value

CodeSpan(text) ==
    <<Backtick>> \o Replace(text, Backtick, <<"\\", Backtick>>) \o <<Backtick>>

\* A slip: the wrappers are applied in a fixed order, whatever the list's order.
ApplyMarksFixedOrder(text, marks) ==
    IF marks = <<>> THEN EscapeMarkdown(text)
    ELSE IF HasMark(marks, "code") THEN CodeSpan(text)
    ELSE WrapLink(
            WrapMarks(EscapeMarkdown(text),
                SelectSeq(<<Mark("strong"), Mark("em"), Mark("strike"), Mark("underline")>>,
                          LAMBDA m : \E i \in 1..Len(marks) : marks[i] = m)),
            marks)

\* A slip: only a leading code mark makes a code span.
ApplyMarksCodeFirstOnly(text, marks) ==
    IF marks = <<>> THEN EscapeMarkdown(text)
    ELSE IF TypeIs(marks[1], "code") THEN CodeSpan(text)
    ELSE WrapLink(WrapMarks(EscapeMarkdown(text), marks), marks)

ApplyMarks(text, marks) ==
    IF marks = <<>> THEN EscapeMarkdown(text)
    ELSE IF HasMark(marks, "code") THEN CodeSpan(text)
    ELSE WrapLink(WrapMarks(EscapeMarkdown(text), marks), marks)

(***************************************************************************)
(* Inline nodes.                                                           *)
(***************************************************************************)
\* node.get("content") or []
Children(node) == Or(Get(node, "content"), List(<<>>)).xs

\* node.get("attrs") or {}
Attrs(node) == Or(Get(node, "attrs"), EmptyDict)

\* attrs.get(first) or ... or "", as a str
FirstOf(attrs, keys) ==
    LET present == SelectSeq(keys, LAMBDA k : Truthy(Get(attrs, k)))
    IN  IF present = <<>> THEN <<>> ELSE Get(attrs, present[1]).s

RECURSIVE RenderInline(_)
RenderInline(node) ==
    CASE TypeIs(node, "text") ->
            ApplyMarks(Or(Get(node, "text"), Str(<<>>)).s,
                       Or(Get(node, "marks"), List(<<>>)).xs)
      [] TypeIs(node, "emoji") -> FirstOf(Attrs(node), <<"text", "shortName">>)
      [] TypeIs(node, "mention") ->
            LET text == FirstOf(Attrs(node), <<"text", "displayName", "id">>)
            IN  IF text # <<>> THEN <<"@">> \o text ELSE <<>>
      [] TypeIs(node, "inlineCard") ->
            LET url == FirstOf(Attrs(node), <<"url">>)
            IN  IF url # <<>> THEN <<"<">> \o url \o <<">">> ELSE <<>>
      [] TypeIs(node, "status") ->
            LET text == FirstOf(Attrs(node), <<"text">>)
            IN  IF text # <<>>
                THEN <<Backtick>> \o EscapeMarkdown(text) \o <<Backtick>>
                ELSE <<>>
      [] TypeIs(node, "date") -> FirstOf(Attrs(node), <<"text", "timestamp">>)
      [] TypeIs(node, "hardBreak") -> <<>>
      [] OTHER ->
            IF IsList(Get(node, "content"))
            THEN LET content == Get(node, "content").xs
                 IN  Concat([i \in 1..Len(content) |-> RenderInline(content[i])])
            ELSE IF Truthy(Get(node, "text"))
            THEN EscapeMarkdown(Get(node, "text").s)
            ELSE IF Truthy(Get(Attrs(node), "url"))
            THEN <<"<">> \o Get(Attrs(node), "url").s \o <<">">>
            ELSE <<>>

\* "".join(self._render_inline(child) for child in children)
InlineText(children) ==
    Bind(children, LAMBDA held :
        Concat([i \in 1..Len(held) |-> RenderInline(held[i])]))

RECURSIVE ParagraphLoop(_, _)
\* the loop of _render_paragraph_lines over the children left, lines so far
ParagraphLoop(children, lines) ==
    Bind(lines, LAMBDA held :
        IF children = <<>> THEN held
        ELSE IF TypeIs(Head(children), "hardBreak")
        THEN ParagraphLoop(Tail(children),
                Append([held EXCEPT ![Len(held)] = RStrip(@) \o <<" ", " ">>], <<>>))
        ELSE ParagraphLoop(Tail(children),
                [held EXCEPT ![Len(held)] = @ \o RenderInline(Head(children))]))

RECURSIVE ParagraphLoopNoTrim(_, _)
ParagraphLoopNoTrim(children, lines) ==
    Bind(lines, LAMBDA held :
        IF children = <<>> THEN held
        ELSE IF TypeIs(Head(children), "hardBreak")
        THEN ParagraphLoopNoTrim(Tail(children),
                Append([held EXCEPT ![Len(held)] = @ \o <<" ", " ">>], <<>>))
        ELSE ParagraphLoopNoTrim(Tail(children),
                [held EXCEPT ![Len(held)] = @ \o RenderInline(Head(children))]))

\* A slip: the line before a hard break keeps its trailing whitespace.
RenderParagraphLinesNoTrim(node) == ParagraphLoopNoTrim(Children(node), <<<<>>>>)

RenderParagraphLines(node) == ParagraphLoop(Children(node), <<<<>>>>)

RECURSIVE CollectText(_)
CollectText(node) ==
    IF ~IsDict(node) THEN <<>>
    ELSE IF TypeIs(node, "text") THEN Or(Get(node, "text"), Str(<<>>)).s
    ELSE IF TypeIs(node, "hardBreak") THEN <<"\n">>
    ELSE IF TypeIs(node, "emoji") \/ TypeIs(node, "mention")
    THEN FirstOf(Attrs(node), <<"text", "shortName">>)
    ELSE IF IsList(Get(node, "content"))
    THEN LET content == Get(node, "content").xs
         IN  Concat([i \in 1..Len(content) |-> CollectText(content[i])])
    ELSE <<>>

(***************************************************************************)
(* Block nodes.                                                            *)
(***************************************************************************)
INDENT == <<" ", " ">>

Digits == <<"0", "1", "2", "3", "4", "5", "6", "7", "8", "9">>

RECURSIVE NatToStr(_)
NatToStr(n) ==
    IF n < 10 THEN <<Digits[n + 1]>>
    ELSE NatToStr(n \div 10) \o <<Digits[(n % 10) + 1]>>

\* f"{index}"
IntToStr(n) == IF n < 0 THEN <<"-">> \o NatToStr(-n) ELSE NatToStr(n)

IsNumeral(text) ==
    /\ text # <<>>
    /\ \A i \in 1..Len(text) : \E d \in 1..10 : text[i] = Digits[d]

RECURSIVE NumeralValue(_)
NumeralValue(text) ==
    IF text = <<>> THEN 0
    ELSE 10 * NumeralValue(SubSeq(text, 1, Len(text) - 1))
            + (CHOOSE d \in 0..9 : text[Len(text)] = Digits[d + 1])

\* int(x) raises: x is neither an int nor a str of decimal digits
IntRaises(x) == ~(x.t = "int" \/ (x.t = "str" /\ IsNumeral(x.s)))

\* int(x)
IntOf(x) == IF x.t = "int" THEN x.n ELSE NumeralValue(x.s)

Max(a, b) == IF a >= b THEN a ELSE b
Min(a, b) == IF a <= b THEN a ELSE b

\* node.get("attrs", {}).get(key, 1)
AttrOrOne(node, key) == GetDefault(GetDefault(node, "attrs", EmptyDict), key, Num(1))

\* A slip: the level is bounded below only.
RenderHeadingNoUpperClamp(node) ==
    LET level == Max(1, IntOf(AttrOrOne(node, "level")))
    IN  RStrip(Repeat(<<"#">>, level) \o <<" ">> \o InlineText(Children(node)))

RenderHeading(node) ==
    LET level == Max(1, Min(6, IntOf(AttrOrOne(node, "level"))))
    IN  RStrip(Repeat(<<"#">>, level) \o <<" ">> \o InlineText(Children(node)))

\* A slip: an empty code body gives no line between the fences.
RenderCodeBlockNoEmptyLine(node) ==
    LET language == FirstOf(Attrs(node), <<"language">>)
        fence == <<Backtick, Backtick, Backtick>>
    IN  <<fence \o language>> \o SplitLines(CollectText(node)) \o <<fence>>

RenderCodeBlock(node) ==
    LET language == FirstOf(Attrs(node), <<"language">>)
        code == CollectText(node)
        fence == <<Backtick, Backtick, Backtick>>
    IN  Bind(SplitLines(code), LAMBDA lines :
            <<fence \o language>>
                \o (IF lines # <<>> THEN lines ELSE <<<<>>>>)
                \o <<fence>>)

\* [prefix + line for line in lines]
Prefixed(prefix, lines) ==
    Bind(lines \o <<>>, LAMBDA held : [i \in 1..Len(held) |-> prefix \o held[i]] \o <<>>)

\* [f"> {line}".rstrip() for line in lines]
Quoted(lines) ==
    Bind(lines \o <<>>, LAMBDA held :
        [i \in 1..Len(held) |-> RStrip(<<">", " ">> \o held[i])] \o <<>>)

\* "| " + " | ".join(cells) + " |"
PipeLine(cells) == <<"|", " ">> \o Join(<<" ", "|", " ">>, cells) \o <<" ", "|">>

\* row + [""] * (col_count - len(row))
Padded(row, col_count) ==
    Bind(row \o <<>>, LAMBDA held : held \o [i \in 1..(col_count - Len(held)) |-> <<>>])

RECURSIVE RenderBlock(_, _)
RECURSIVE RenderItems(_, _, _, _)
RECURSIVE RenderListItem(_, _, _, _)
RECURSIVE RenderBlockInList(_, _, _)
RECURSIVE RenderInnerBlocks(_, _, _)

\* the loop of _render and _render_inner_blocks: each block's lines joined,
\* the blocks without lines dropped
BlockStrings(nodes, list_level) ==
    Bind(SelectSeq([i \in 1..Len(nodes) |-> RenderBlock(nodes[i], list_level)],
                   LAMBDA lines : lines # <<>>),
         LAMBDA kept : [i \in 1..Len(kept) |-> Join(<<"\n">>, kept[i])] \o <<>>)

RenderInnerBlocks(nodes, list_level, tight) ==
    Bind(BlockStrings(nodes, list_level), LAMBDA blocks :
        IF blocks = <<>> THEN <<>>
        ELSE SplitLines(Join(IF tight THEN <<"\n">> ELSE <<"\n", "\n">>, blocks)))

\* A slip: every item gets the number of the first one.
RenderItemsSameNumber(items, list_level, ordered, index) ==
    Concat([i \in 1..Len(items) |-> RenderListItem(items[i], list_level, ordered, index)])

RenderList(node, list_level, ordered) ==
    LET start == AttrOrOne(node, "order")
    IN  RenderItems(Children(node), list_level, ordered,
                    IF ordered THEN IntOf(start) ELSE 1)

\* the loop of _render_list over the items left, index being the next number
RenderItems(items, list_level, ordered, index) ==
    IF items = <<>> THEN <<>>
    ELSE RenderListItem(Head(items), list_level, ordered, index)
            \o RenderItems(Tail(items), list_level, ordered,
                           IF ordered THEN index + 1 ELSE index)

RenderListItem(node, list_level, ordered, index) ==
    LET indent == Repeat(INDENT, list_level)
        bullet == IF ordered THEN IntToStr(index) \o <<".">> ELSE <<"-">>
        bullet_prefix == indent \o bullet \o <<" ">>
        continuation_prefix == Repeat(<<" ">>, Len(bullet_prefix))
        content == Children(node)
        first == content[1]
        head ==
            IF TypeIs(first, "paragraph")
            THEN Bind(RenderParagraphLines(first), LAMBDA paragraph_lines :
                    IF paragraph_lines # <<>>
                    THEN <<bullet_prefix \o paragraph_lines[1]>>
                            \o Prefixed(continuation_prefix, Tail(paragraph_lines))
                    ELSE <<RStrip(bullet_prefix)>>)
            ELSE <<RStrip(bullet_prefix)>>
                    \o RenderBlockInList(first, list_level, continuation_prefix)
    IN  IF content = <<>> THEN <<RStrip(bullet_prefix)>>
        ELSE head \o Concat([i \in 1..(Len(content) - 1) |->
                RenderBlockInList(content[i + 1], list_level, continuation_prefix)])

\* A slip: a nested list stays at the depth of the item.
RenderBlockInListSameDepth(node, list_level, continuation_prefix) ==
    IF TypeIs(node, "bulletList") \/ TypeIs(node, "orderedList")
    THEN RenderBlock(node, list_level)
    ELSE Prefixed(continuation_prefix, RenderBlock(node, list_level))

RenderBlockInList(node, list_level, continuation_prefix) ==
    IF TypeIs(node, "bulletList") \/ TypeIs(node, "orderedList")
    THEN RenderBlock(node, list_level + 1)
    ELSE Prefixed(continuation_prefix, RenderBlock(node, list_level))

RenderBlockquote(node, list_level) ==
    Bind(RenderInnerBlocks(Children(node), list_level, FALSE), LAMBDA inner :
        IF inner = <<>> THEN <<<<">">>>> ELSE Quoted(inner))

RenderPanel(node, list_level) ==
    LET title == IF Truthy(Get(Attrs(node), "title"))
                 THEN <<"*", "*">> \o EscapeMarkdown(Get(Attrs(node), "title").s)
                        \o <<"*", "*", " ">>
                 ELSE <<>>
    IN  Bind(RenderInnerBlocks(Children(node), list_level, FALSE), LAMBDA inner :
            IF inner = <<>> THEN <<RStrip(<<">", " ">> \o title)>>
            ELSE <<RStrip(<<">", " ">> \o title \o inner[1])>> \o Quoted(Tail(inner)))

RenderCell(node) == RenderInnerBlocks(Children(node), 0, TRUE)

\* rendered_rows: per row, per cell "<br>".join(cell_lines).strip()
RenderedRows(rows) ==
    [r \in 1..Len(rows) |->
        Bind(Children(rows[r]), LAMBDA cells :
            [c \in 1..Len(cells) |->
                Strip(Join(<<"<", "b", "r", ">">>, RenderCell(cells[c])))] \o <<>>)]
        \o <<>>

\* header_row: some cell of some row is a tableHeader
HeaderRow(rows) ==
    \E r \in 1..Len(rows) :
        \E c \in 1..Len(Children(rows[r])) : TypeIs(Children(rows[r])[c], "tableHeader")

\* max(len(row) for row in rendered_rows)
ColCount(rendered_rows) ==
    CHOOSE n \in {Len(rendered_rows[r]) : r \in 1..Len(rendered_rows)} :
        \A r \in 1..Len(rendered_rows) : Len(rendered_rows[r]) <= n

\* the lines of the table from rendered_rows on
TableLines(rendered_rows, header_row) ==
    LET col_count == ColCount(rendered_rows)
        rest == SubSeq(rendered_rows, IF header_row THEN 2 ELSE 1, Len(rendered_rows))
    IN  <<PipeLine(Padded(rendered_rows[1], col_count))>>
            \o (IF header_row
                THEN <<PipeLine([i \in 1..col_count |-> <<"-", "-", "-">>])>>
                ELSE <<>>)
            \o [i \in 1..Len(rest) |-> PipeLine(Padded(rest[i], col_count))]

RenderTable(node) ==
    IF Children(node) = <<>> THEN <<>>
    ELSE Bind(RenderedRows(Children(node)), LAMBDA rendered_rows :
            TableLines(rendered_rows, HeaderRow(Children(node))))

RenderBlock(node, list_level) ==
    CASE TypeIs(node, "paragraph") -> RenderParagraphLines(node)
      [] TypeIs(node, "heading") -> <<RenderHeading(node)>>
      [] TypeIs(node, "bulletList") -> RenderList(node, list_level, FALSE)
      [] TypeIs(node, "orderedList") -> RenderList(node, list_level, TRUE)
      [] TypeIs(node, "blockquote") -> RenderBlockquote(node, list_level)
      [] TypeIs(node, "panel") -> RenderPanel(node, list_level)
      [] TypeIs(node, "codeBlock") -> RenderCodeBlock(node)
      [] TypeIs(node, "rule") -> <<<<"-", "-", "-">>>>
      [] TypeIs(node, "table") -> RenderTable(node)
      [] OTHER -> Bind(CollectText(node), LAMBDA text :
                    IF text # <<>> THEN <<text>> ELSE <<>>)

\* _MarkdownRenderer.render
Render(doc) == Join(<<"\n", "\n">>, BlockStrings(Children(doc), 0))

(***************************************************************************)
(* Document unwrapping and the entry point.                                *)
(***************************************************************************)
IsDoc(x) == IsDict(x) /\ TypeIs(x, "doc")

\* A slip: the description is looked at before the body.
ExtractDocDescriptionFirst(value) ==
    IF ~IsDict(value) THEN None
    ELSE IF TypeIs(value, "doc") THEN value
    ELSE IF IsDoc(Get(value, "description")) THEN Get(value, "description")
    ELSE IF IsDoc(Get(value, "body")) THEN Get(value, "body")
    ELSE IF IsList(Get(value, "content")) /\ ~IsNone(Get(value, "version")) THEN value
    ELSE None

ExtractDoc(value) ==
    IF ~IsDict(value) THEN None
    ELSE IF TypeIs(value, "doc") THEN value
    ELSE IF IsDoc(Get(value, "body")) THEN Get(value, "body")
    ELSE IF IsDoc(Get(value, "description")) THEN Get(value, "description")
    ELSE IF IsList(Get(value, "content")) /\ ~IsNone(Get(value, "version")) THEN value
    ELSE None

RenderMarkdown(value) ==
    LET doc == ExtractDoc(value)
    IN  IF ~Truthy(doc) THEN <<>> ELSE Render(doc)

(***************************************************************************)
(* Where the renderer raises.  Nothing in jira.py catches an exception, so *)
(* a call raises exactly when some expression it evaluates raises:         *)
(* x.get(...) on an x that is no dict (AttributeError), int(x) on an x     *)
(* that is no number (TypeError, ValueError), and the iteration or         *)
(* indexing of a content or marks value that is no list, which either      *)
(* fails itself or yields children that are no dicts.                      *)
(* The values of the fields the code reads as text (text, title, url,      *)
(* href, language, ...) are a str or None.                                 *)
(***************************************************************************)
\* (x or []) is iterated or indexed as a list of dicts, and x is no list
NotAList(x) == Truthy(x) /\ ~IsList(x)

\* (node.get("attrs") or {}).get(...)
AttrsRaises(node) == Truthy(Get(node, "attrs")) /\ ~IsDict(Get(node, "attrs"))

\* any(mark.get("type") == "code" for mark in marks), then the loop over marks
\* and (link.get("attrs") or {}).get("href") on the first link mark
ApplyMarksRaises(marks) ==
    \/ \E i \in 1..Len(marks) :
            /\ ~IsDict(marks[i])
            /\ \A j \in 1..(i - 1) : IsDict(marks[j]) /\ ~TypeIs(marks[j], "code")
    \/ /\ \A i \in 1..Len(marks) : IsDict(marks[i]) /\ ~TypeIs(marks[i], "code")
       /\ HasMark(marks, "link")
       /\ AttrsRaises(FirstLink(marks))

RECURSIVE InlineRaises(_)
InlineRaises(node) ==
    IF ~IsDict(node) THEN TRUE
    ELSE CASE TypeIs(node, "text") ->
                \/ NotAList(Get(node, "marks"))
                \/ ApplyMarksRaises(Or(Get(node, "marks"), List(<<>>)).xs)
           [] \/ TypeIs(node, "emoji") \/ TypeIs(node, "mention")
              \/ TypeIs(node, "inlineCard") \/ TypeIs(node, "status")
              \/ TypeIs(node, "date") -> AttrsRaises(node)
           [] TypeIs(node, "hardBreak") -> FALSE
           [] OTHER ->
                IF IsList(Get(node, "content"))
                THEN \E i \in 1..Len(Get(node, "content").xs) :
                        InlineRaises(Get(node, "content").xs[i])
                ELSE IF Truthy(Get(node, "text")) THEN FALSE
                ELSE AttrsRaises(node)

\* "".join(self._render_inline(child) for child in node.get("content") or [])
InlineTextRaises(node) ==
    \/ NotAList(Get(node, "content"))
    \/ \E i \in 1..Len(Children(node)) : InlineRaises(Children(node)[i])

\* child.get("type") on each child, _render_inline on all but the hard breaks
ParagraphRaises(node) ==
    \/ NotAList(Get(node, "content"))
    \/ \E i \in 1..Len(Children(node)) :
            LET child == Children(node)[i]
            IN  ~IsDict(child) \/ (~TypeIs(child, "hardBreak") /\ InlineRaises(child))

\* node.get("attrs", {}).get(key, 1)
AttrOrOneRaises(node) == ~IsDict(GetDefault(node, "attrs", EmptyDict))

HeadingRaises(node) ==
    \/ AttrOrOneRaises(node)
    \/ IntRaises(AttrOrOne(node, "level"))
    \/ InlineTextRaises(node)

RECURSIVE CollectTextRaises(_)
CollectTextRaises(node) ==
    /\ IsDict(node)
    /\ ~TypeIs(node, "text")
    /\ ~TypeIs(node, "hardBreak")
    /\ IF TypeIs(node, "emoji") \/ TypeIs(node, "mention") THEN AttrsRaises(node)
       ELSE /\ IsList(Get(node, "content"))
            /\ \E i \in 1..Len(Get(node, "content").xs) :
                    CollectTextRaises(Get(node, "content").xs[i])

RECURSIVE BlockRaises(_)
RECURSIVE ListItemRaises(_)

\* _render_inner_blocks(node.get("content") or [], ...), and render
InnerBlocksRaise(node) ==
    \/ NotAList(Get(node, "content"))
    \/ \E i \in 1..Len(Children(node)) : BlockRaises(Children(node)[i])

ListRaises(node, ordered) ==
    \/ AttrOrOneRaises(node)
    \/ (ordered /\ IntRaises(AttrOrOne(node, "order")))
    \/ NotAList(Get(node, "content"))
    \/ \E i \in 1..Len(Children(node)) : ListItemRaises(Children(node)[i])

ListItemRaises(node) ==
    IF ~IsDict(node) \/ NotAList(Get(node, "content")) THEN TRUE
    ELSE LET content == Children(node)
         IN  /\ content # <<>>
             /\ \/ ~IsDict(content[1])
                \/ IF TypeIs(content[1], "paragraph")
                   THEN ParagraphRaises(content[1])
                   ELSE BlockRaises(content[1])
                \/ \E i \in 2..Len(content) : BlockRaises(content[i])

TableRaises(node) ==
    \/ NotAList(Get(node, "content"))
    \/ \E r \in 1..Len(Children(node)) :
            LET row == Children(node)[r]
            IN  \/ ~IsDict(row)
                \/ NotAList(Get(row, "content"))
                \/ \E c \in 1..Len(Children(row)) :
                        \/ ~IsDict(Children(row)[c])
                        \/ InnerBlocksRaise(Children(row)[c])

BlockRaises(node) ==
    IF ~IsDict(node) THEN TRUE
    ELSE CASE TypeIs(node, "paragraph") -> ParagraphRaises(node)
           [] TypeIs(node, "heading") -> HeadingRaises(node)
           [] TypeIs(node, "bulletList") -> ListRaises(node, FALSE)
           [] TypeIs(node, "orderedList") -> ListRaises(node, TRUE)
           [] TypeIs(node, "blockquote") -> InnerBlocksRaise(node)
           [] TypeIs(node, "panel") -> AttrsRaises(node) \/ InnerBlocksRaise(node)
           [] TypeIs(node, "codeBlock") -> AttrsRaises(node) \/ CollectTextRaises(node)
           [] TypeIs(node, "rule") -> FALSE
           [] TypeIs(node, "table") -> TableRaises(node)
           [] OTHER -> CollectTextRaises(node)

RenderMarkdownRaises(value) ==
    Truthy(ExtractDoc(value)) /\ InnerBlocksRaise(ExtractDoc(value))

\* the outcome of render_markdown(value)
RenderMarkdownOutcome(value) ==
    IF RenderMarkdownRaises(value) THEN [status |-> "raised"]
    ELSE [status |-> "returned", value |-> RenderMarkdown(value)]

(***************************************************************************)
(* The state: a call and its outcome.                                      *)
(***************************************************************************)
Pending == [status |-> "pending"]
Return(value) == [status |-> "returned", value |-> value]
Raise == [status |-> "raised"]
\* raise RequestError(status, ...)
Raised(status) == [status |-> "raised", error |-> status]

Call(fn, args) == [fn |-> fn, args |-> args]

Returned(fn) == call.fn = fn /\ ret.status = "returned"

\* start_at = 0, max_results = 100 at the head of the fetch functions
DefaultMaxResults == 100

\* the locals of the pagination loops before the first request
NoFetch ==
    /\ start_at = 0
    /\ max_results = DefaultMaxResults
    /\ request_mode = None
    /\ mode_index = 1
    /\ last_error = None
    /\ sent = None

RECURSIVE SeqsUpTo(_, _)
\* the sequences over S of length at most n
SeqsUpTo(S, n) ==
    IF n = 0 THEN {<<>>}
    ELSE LET shorter == SeqsUpTo(S, n - 1)
         IN  shorter \cup {Append(s, x) : s \in shorter, x \in S}

(***************************************************************************)
(* Calls of _escape_markdown.                                              *)
(***************************************************************************)
EscapeAlphabet == {"a", " ", "\\", "*", Backtick, "["}
EscapeTexts == SeqsUpTo(EscapeAlphabet, MaxTextLen + 1)

InitEscape ==
    /\ call \in {Call("_escape_markdown", <<text>>) : text \in EscapeTexts}
    /\ ret = Pending
    /\ NoFetch

escape_markdown ==
    /\ call.fn = "_escape_markdown"
    /\ ret = Pending
    /\ ret' = Return(EscapeMarkdown(call.args[1]))
    /\ UNCHANGED <<call, fetch_vars>>

SpecEscape == InitEscape /\ [][escape_markdown]_vars

(***************************************************************************)
(* Calls of _apply_marks.                                                  *)
(***************************************************************************)
MarkAlphabet == {"a", "*", Backtick}
MarkTexts == SeqsUpTo(MarkAlphabet, MaxTextLen - 1)
Marks ==
    {Mark("strong"), Mark("em"), Mark("strike"), Mark("underline"), Mark("code"),
     LinkMark(<<"u">>), LinkMark(<<>>)}
MarkLists == SeqsUpTo(Marks, MaxMarks)

InitMarks ==
    /\ call \in {Call("_apply_marks", <<text, marks>>) :
                    text \in MarkTexts, marks \in MarkLists}
    /\ ret = Pending
    /\ NoFetch

apply_marks ==
    /\ call.fn = "_apply_marks"
    /\ ret = Pending
    /\ ret' = Return(ApplyMarks(call.args[1], call.args[2]))
    /\ UNCHANGED <<call, fetch_vars>>

SpecMarks == InitMarks /\ [][apply_marks]_vars

(***************************************************************************)
(* ADF values the calls are drawn from.                                    *)
(***************************************************************************)
\* stands for a key that the JSON object does not have
Missing == [t |-> "missing"]

\* the dict with the fields given, those that are Missing left out
Obj(fields) ==
    Dict([k \in {f \in DOMAIN fields : fields[f] # Missing} |-> fields[k]])

\* a node of the type with the attrs and content given (each may be Missing)
Node(type, attrs, content) ==
    Obj([type |-> Name(type), attrs |-> attrs, content |-> content])

TextNode(text) == Dict([type |-> Name("text"), text |-> Str(text)])
MarkedText(text, marks) ==
    Dict([type |-> Name("text"), text |-> Str(text), marks |-> List(marks)])
HardBreak == Dict([type |-> Name("hardBreak")])
Paragraph(children) == Node("paragraph", Missing, List(children))
Doc(blocks) == Node("doc", Missing, List(blocks))

(***************************************************************************)
(* Calls of render_markdown on envelopes (document unwrapping).            *)
(***************************************************************************)
DocA == Doc(<<Paragraph(<<TextNode(<<"A">>)>>)>>)
DocB == Doc(<<Paragraph(<<TextNode(<<"B">>)>>)>>)
NotADoc == Dict([type |-> Name("comment")])

Envelopes ==
    {Obj([type |-> type, body |-> body, description |-> description,
          content |-> content, version |-> version]) :
        type \in {Missing, Name("doc"), Name("comment")},
        body \in {Missing, None, DocA, NotADoc, Str(<<"A">>)},
        description \in {Missing, DocB, NotADoc},
        content \in {Missing, None, List(<<>>), List(<<Paragraph(<<TextNode(<<"C">>)>>)>>)},
        version \in {Missing, None, Num(1)}}

UnwrapValues == Envelopes \cup {None, Str(<<"A">>), Num(1), List(<<DocA>>)}

InitUnwrap ==
    /\ call \in {Call("render_markdown", <<value>>) : value \in UnwrapValues}
    /\ ret = Pending
    /\ NoFetch

render_markdown ==
    /\ call.fn = "render_markdown"
    /\ ret = Pending
    /\ ret' = IF RenderMarkdownRaises(call.args[1]) THEN Raise
              ELSE Return(RenderMarkdown(call.args[1]))
    /\ UNCHANGED <<call, fetch_vars>>

SpecUnwrap == InitUnwrap /\ [][render_markdown]_vars

(***************************************************************************)
(* Calls of render_markdown on documents with absent, null and ill-typed   *)
(* fields.                                                                 *)
(***************************************************************************)
LooseInlines ==
    {TextNode(<<"a">>), HardBreak, None, Str(<<"a">>),
     Dict([type |-> Name("text")]),
     Dict([type |-> Name("text"), text |-> None, marks |-> None]),
     MarkedText(<<"a">>, <<Mark("strong")>>),
     Node("emoji", None, Missing)}

LooseContents ==
    {Missing, None, List(<<>>)} \cup {List(<<child>>) : child \in LooseInlines}

LooseNumbers == {Missing, None, Num(0), Num(9), Str(<<"x">>), Str(<<"3">>)}

LooseAttrs(key) ==
    {Missing, None, EmptyDict}
        \cup {Obj([k \in {key} |-> number]) : number \in LooseNumbers \ {Missing}}

LooseItems ==
    {None, Node("listItem", Missing, Missing), Node("listItem", None, None),
     Node("listItem", Missing, List(<<Paragraph(<<TextNode(<<"a">>)>>)>>)),
     Node("listItem", Missing, List(<<Str(<<"a">>)>>))}

LooseBlocks ==
    {None, Str(<<"a">>), EmptyDict}
        \cup {Node(type, attrs, content) :
                type \in {"paragraph", "blockquote", "panel", "codeBlock", "rule", "expand"},
                attrs \in {Missing, None}, content \in LooseContents}
        \cup {Node("heading", attrs, content) :
                attrs \in LooseAttrs("level"), content \in LooseContents}
        \cup {Node(type, attrs, content) :
                type \in {"bulletList", "orderedList"}, attrs \in LooseAttrs("order"),
                content \in {Missing, None} \cup {List(<<item>>) : item \in LooseItems}}
        \cup {Node("table", Missing, content) :
                content \in {Missing, None, List(<<None>>),
                             List(<<Node("tableRow", Missing, None)>>),
                             List(<<Node("tableRow", Missing, List(<<None>>))>>),
                             List(<<Node("tableRow", Missing,
                                        List(<<Node("tableCell", None, None)>>))>>)}}

LooseValues ==
    {None, Str(<<"a">>), Node("doc", Missing, Missing), Node("doc", None, None)}
        \cup {Doc(<<block>>) : block \in LooseBlocks}
        \cup {Dict([body |-> Doc(<<block>>)]) : block \in LooseBlocks}

InitLoose ==
    /\ call \in {Call("render_markdown", <<value>>) : value \in LooseValues}
    /\ ret = Pending
    /\ NoFetch

SpecLoose == InitLoose /\ [][render_markdown]_vars

(***************************************************************************)
(* Calls of _render_paragraph_lines.                                       *)
(***************************************************************************)
ParagraphInlines ==
    {TextNode(<<"a">>), TextNode(<<"b", " ">>), TextNode(<<" ">>), HardBreak,
     MarkedText(<<"c">>, <<Mark("em")>>)}

ParagraphNodes ==
    {Node("paragraph", Missing, Missing), Node("paragraph", Missing, None)}
        \cup {Paragraph(children) : children \in SeqsUpTo(ParagraphInlines, MaxInlines)}

InitParagraph ==
    /\ call \in {Call("_render_paragraph_lines", <<node>>) : node \in ParagraphNodes}
    /\ ret = Pending
    /\ NoFetch

render_paragraph_lines ==
    /\ call.fn = "_render_paragraph_lines"
    /\ ret = Pending
    /\ ret' = IF ParagraphRaises(call.args[1]) THEN Raise
              ELSE Return(RenderParagraphLines(call.args[1]))
    /\ UNCHANGED <<call, fetch_vars>>

SpecParagraph == InitParagraph /\ [][render_paragraph_lines]_vars

(***************************************************************************)
(* Calls of _render_block on headings.                                     *)
(***************************************************************************)
HeadingInlines ==
    {TextNode(<<"a">>), TextNode(<<"b", " ">>), TextNode(<<" ">>), TextNode(<<"#">>),
     HardBreak}

HeadingLevels == {Missing} \cup {Num(n) : n \in -1..9}

HeadingNodes ==
    {Node("heading", Missing, Missing), Node("heading", EmptyDict, None)}
        \cup {Node("heading", Obj([level |-> level]), List(children)) :
                level \in HeadingLevels,
                children \in SeqsUpTo(HeadingInlines, MaxHeadingInlines)}

InitHeading ==
    /\ call \in {Call("_render_block", <<node, 0>>) : node \in HeadingNodes}
    /\ ret = Pending
    /\ NoFetch

render_block ==
    /\ call.fn = "_render_block"
    /\ ret = Pending
    /\ ret' = IF BlockRaises(call.args[1]) THEN Raise
              ELSE Return(RenderBlock(call.args[1], call.args[2]))
    /\ UNCHANGED <<call, fetch_vars>>

SpecHeading == InitHeading /\ [][render_block]_vars

(***************************************************************************)
(* Calls of _render_list.                                                  *)
(***************************************************************************)
ListItem(blocks) == Node("listItem", Missing, List(blocks))
OrderedList(order, items) == Node("orderedList", Obj([order |-> order]), List(items))
BulletList(items) == Node("bulletList", Missing, List(items))

ParaA == Paragraph(<<TextNode(<<"a">>)>>)
ParaBreak == Paragraph(<<TextNode(<<"a">>), HardBreak, TextNode(<<"b">>)>>)
InnerOrdered == OrderedList(Num(3), <<ListItem(<<ParaA>>), ListItem(<<>>)>>)
InnerBullets == BulletList(<<ListItem(<<ParaA>>)>>)

Items ==
    {Node("listItem", Missing, Missing), ListItem(<<ParaA>>), ListItem(<<ParaBreak>>),
     ListItem(<<ParaA, InnerOrdered>>), ListItem(<<InnerOrdered>>)}

ListOrders == {Missing, Num(0), Num(5), Num(9), Num(98)}

ListNodes ==
    {Node(type, Obj([order |-> order]), List(items)) :
        type \in {"bulletList", "orderedList"}, order \in ListOrders,
        items \in SeqsUpTo(Items, MaxItems)}
    \cup {Node("orderedList", Missing, Missing)}
    \cup {Node("bulletList", Obj([order |-> Str(<<"x">>)]), List(items)) :
            items \in SeqsUpTo(Items, 1)}

InitList ==
    /\ call \in {Call("_render_list", <<node, list_level, TypeIs(node, "orderedList")>>) :
                    node \in ListNodes, list_level \in 0..MaxListLevel}
    /\ ret = Pending
    /\ NoFetch

render_list ==
    /\ call.fn = "_render_list"
    /\ ret = Pending
    /\ ret' = IF ListRaises(call.args[1], call.args[3]) THEN Raise
              ELSE Return(RenderList(call.args[1], call.args[2], call.args[3]))
    /\ UNCHANGED <<call, fetch_vars>>

SpecList == InitList /\ [][render_list]_vars

(***************************************************************************)
(* Calls of _render_list_item.                                             *)
(***************************************************************************)
CodeBlock(children) == Node("codeBlock", Missing, List(children))

ItemBlocks ==
    {ParaA, ParaBreak, Paragraph(<<>>), InnerOrdered, InnerBullets,
     CodeBlock(<<TextNode(<<"x", "\n", "y">>)>>),
     Node("heading", Missing, List(<<TextNode(<<"h">>)>>)),
     Node("blockquote", Missing, List(<<ParaA, InnerBullets>>)),
     Node("rule", Missing, Missing),
     Node("expand", Missing, List(<<TextNode(<<"t">>)>>)),
     Node("expand", Missing, Missing)}

ItemNodes ==
    {Node("listItem", Missing, Missing), Node("listItem", Missing, None)}
        \cup {ListItem(blocks) : blocks \in SeqsUpTo(ItemBlocks, MaxItemBlocks)}

ItemIndexes == {1, 10}

InitListItem ==
    /\ call \in {Call("_render_list_item", <<node, list_level, ordered, index>>) :
                    node \in ItemNodes, list_level \in 0..MaxListLevel,
                    ordered \in BOOLEAN, index \in ItemIndexes}
    /\ ret = Pending
    /\ NoFetch

render_list_item ==
    /\ call.fn = "_render_list_item"
    /\ ret = Pending
    /\ ret' = IF ListItemRaises(call.args[1]) THEN Raise
              ELSE Return(RenderListItem(call.args[1], call.args[2], call.args[3],
                                         call.args[4]))
    /\ UNCHANGED <<call, fetch_vars>>

SpecListItem == InitListItem /\ [][render_list_item]_vars

(***************************************************************************)
(* Calls of _render_table.                                                 *)
(***************************************************************************)
Cells ==
    {Node("tableCell", Missing, List(<<ParaA>>)),
     Node("tableHeader", Missing, List(<<Paragraph(<<TextNode(<<"h">>)>>)>>)),
     Node("tableCell", Missing, List(<<ParaA, ParaBreak>>))}

Rows == {Node("tableRow", Missing, List(cells)) : cells \in SeqsUpTo(Cells, MaxCells)}

TableNodes ==
    {Node("table", Missing, Missing), Node("table", Missing, None)}
        \cup {Node("table", Missing, List(rows)) : rows \in SeqsUpTo(Rows, MaxRows)}

InitTable ==
    /\ call \in {Call("_render_table", <<node>>) : node \in TableNodes}
    /\ ret = Pending
    /\ NoFetch

render_table ==
    /\ call.fn = "_render_table"
    /\ ret = Pending
    /\ ret' = IF TableRaises(call.args[1]) THEN Raise
              ELSE Return(RenderTable(call.args[1]))
    /\ UNCHANGED <<call, fetch_vars>>

SpecTable == InitTable /\ [][render_table]_vars

(***************************************************************************)
(* Calls of _render_block on nodes of unrecognized type.                   *)
(***************************************************************************)
Emoji(attrs) == Node("emoji", attrs, Missing)
Mention(attrs) == Node("mention", attrs, Missing)

UnknownChildren ==
    {TextNode(<<"a">>), TextNode(<<"*">>), HardBreak,
     Dict([type |-> Name("text"), text |-> None]),
     Emoji(Obj([text |-> Str(<<"e">>), shortName |-> Str(<<"s">>)])),
     Emoji(Obj([shortName |-> Str(<<"s">>)])),
     Mention(Obj([text |-> Str(<<"@", "m">>)])),
     Paragraph(<<TextNode(<<"b">>), HardBreak, TextNode(<<"c">>)>>)}

UnknownNodes ==
    {Node("expand", Missing, Missing), Node("mediaSingle", EmptyDict, None),
     Obj([content |-> List(<<TextNode(<<"a">>)>>)])}
        \cup {Node(type, Missing, List(children)) :
                type \in {"expand", "mediaSingle"},
                children \in SeqsUpTo(UnknownChildren, MaxUnknownChildren)}

InitUnknown ==
    /\ call \in {Call("_render_block", <<node, 0>>) : node \in UnknownNodes}
    /\ ret = Pending
    /\ NoFetch

SpecUnknown == InitUnknown /\ [][render_block]_vars

(***************************************************************************)
(* Calls of _render_block on code blocks.                                  *)
(***************************************************************************)
CodeChildren ==
    {TextNode(<<"x">>), TextNode(<<Backtick, "*">>), TextNode(<<"a", "\n", "b">>),
     TextNode(<<"\n">>), HardBreak}

CodeLanguages == {Missing, None, Str(<<>>), Str(<<"p", "y">>)}

CodeBlockNodes ==
    {Node("codeBlock", Missing, Missing), Node("codeBlock", None, None)}
        \cup {Node("codeBlock", Obj([language |-> language]), List(children)) :
                language \in CodeLanguages,
                children \in SeqsUpTo(CodeChildren, MaxCodeChildren)}

InitCodeBlock ==
    /\ call \in {Call("_render_block", <<node, 0>>) : node \in CodeBlockNodes}
    /\ ret = Pending
    /\ NoFetch

SpecCodeBlock == InitCodeBlock /\ [][render_block]_vars

(***************************************************************************)
(* The pagination loops of fetch_comments and fetch_assigned_tickets.      *)
(***************************************************************************)
\* the answers of the server to a page request: total, startAt and
\* maxResults, each a number or absent
Counts(max) == {Missing} \cup {Num(n) : n \in 0..max}

Pages ==
    {[ok |-> TRUE, total |-> total, startAt |-> startAt, maxResults |-> maxResults] :
        total \in Counts(MaxTotal), startAt \in Counts(MaxTotal),
        maxResults \in Counts(MaxPageSize)}

\* HTTP errors: urllib.error.HTTPError with e.code
ErrorStatuses == {400, 405, 404, 500}

Errors == {[ok |-> FALSE, status |-> status] : status \in ErrorStatuses}

Answers == Pages \cup Errors

\* data.get(key, default)
CountOr(count, default) == IF count = Missing THEN default ELSE count.n

\* for mode in ("post-object", "post-string", "get")
Modes == <<"post-object", "post-string", "get">>

Request(mode, start, size) ==
    [t |-> "request", mode |-> mode, startAt |-> start, maxResults |-> size]

\* the end of an iteration of the while loop, data being the page received
HandlePage(data) ==
    LET start == CountOr(data.startAt, start_at)
        size == CountOr(data.maxResults, max_results)
    IN  /\ max_results' = size
        /\ IF data.total = Missing \/ start + size >= data.total.n
           THEN /\ start_at' = start
                /\ ret' = Return(List(<<>>))
           ELSE /\ start_at' = start + size
                /\ ret' = ret

InitFetch ==
    /\ call \in {Call("fetch_comments", <<>>), Call("fetch_assigned_tickets", <<>>)}
    /\ ret = Pending
    /\ NoFetch

\* one iteration of the while loop of fetch_comments
fetch_comments_page ==
    /\ call.fn = "fetch_comments"
    /\ ret = Pending
    /\ sent' = Request(Name("GET"), start_at, max_results)
    /\ \E answer \in Answers :
        IF answer.ok THEN HandlePage(answer)
        ELSE ret' = Raised(answer.status) /\ UNCHANGED <<start_at, max_results>>
    /\ UNCHANGED <<call, request_mode, mode_index, last_error>>

\* A slip: every HTTP error moves on to the next mode.
search_page_with_fallback_on_any_error ==
    /\ call.fn = "fetch_assigned_tickets"
    /\ ret = Pending
    /\ request_mode = None
    /\ sent' = Request(Name(Modes[mode_index]), start_at, max_results)
    /\ \E answer \in Answers :
        IF answer.ok
        THEN /\ request_mode' = Name(Modes[mode_index])
             /\ HandlePage(answer)
             /\ UNCHANGED <<mode_index, last_error>>
        ELSE /\ last_error' = Num(answer.status)
             /\ IF mode_index < Len(Modes)
                THEN mode_index' = mode_index + 1 /\ ret' = ret
                ELSE mode_index' = mode_index /\ ret' = Raised(answer.status)
             /\ UNCHANGED <<request_mode, start_at, max_results>>
    /\ UNCHANGED call

\* one pass of the for loop of _search_page_with_fallback, and the rest of
\* the iteration of the while loop when the request succeeds
search_page_with_fallback ==
    /\ call.fn = "fetch_assigned_tickets"
    /\ ret = Pending
    /\ request_mode = None
    /\ sent' = Request(Name(Modes[mode_index]), start_at, max_results)
    /\ \E answer \in Answers :
        IF answer.ok
        THEN /\ request_mode' = Name(Modes[mode_index])
             /\ HandlePage(answer)
             /\ UNCHANGED <<mode_index, last_error>>
        ELSE /\ last_error' = Num(answer.status)
             /\ IF answer.status \in {400, 405} /\ mode_index < Len(Modes)
                THEN mode_index' = mode_index + 1 /\ ret' = ret
                ELSE mode_index' = mode_index /\ ret' = Raised(answer.status)
             /\ UNCHANGED <<request_mode, start_at, max_results>>
    /\ UNCHANGED call

\* one iteration of the while loop of fetch_assigned_tickets once
\* request_mode is set
search_page ==
    /\ call.fn = "fetch_assigned_tickets"
    /\ ret = Pending
    /\ request_mode # None
    /\ sent' = Request(request_mode, start_at, max_results)
    /\ \E answer \in Answers :
        IF answer.ok THEN HandlePage(answer)
        ELSE ret' = Raised(answer.status) /\ UNCHANGED <<start_at, max_results>>
    /\ UNCHANGED <<call, request_mode, mode_index, last_error>>

NextFetch ==
    \/ fetch_comments_page
    \/ search_page_with_fallback
    \/ search_page

SpecFetch == InitFetch /\ [][NextFetch]_vars

\* the loops run as long as they can: a request is answered
SpecFetchFair == SpecFetch /\ WF_vars(NextFetch)

(***************************************************************************)
(* The whole model.                                                        *)
(***************************************************************************)
Init ==
    \/ InitEscape
    \/ InitMarks
    \/ InitUnwrap
    \/ InitLoose
    \/ InitParagraph
    \/ InitHeading
    \/ InitList
    \/ InitListItem
    \/ InitTable
    \/ InitUnknown
    \/ InitCodeBlock
    \/ InitFetch

Next ==
    \/ escape_markdown
    \/ apply_marks
    \/ render_markdown
    \/ render_paragraph_lines
    \/ render_block
    \/ render_list
    \/ render_list_item
    \/ render_table
    \/ fetch_comments_page
    \/ search_page_with_fallback
    \/ search_page

Spec == Init /\ [][Next]_vars

(***************************************************************************)
(* Properties of _escape_markdown.                                         *)
(***************************************************************************)
MetaSet == {MetaChars[i] : i \in 1..Len(MetaChars)}

RECURSIVE Unescape(_)
\* one level of backslash escaping removed, reading from the left
Unescape(text) ==
    IF text = <<>> THEN <<>>
    ELSE IF Head(text) = "\\" /\ Len(text) >= 2
         THEN <<text[2]>> \o Unescape(SubSeq(text, 3, Len(text)))
         ELSE <<Head(text)>> \o Unescape(Tail(text))

\* the number of backslashes that directly precede position i
BackslashRun(text, i) ==
    LET starts == {j \in 1..i : \A k \in j..(i - 1) : text[k] = "\\"}
    IN  i - CHOOSE j \in starts : \A k \in starts : j <= k

\* C5: in the output of _escape_markdown every metacharacter is preceded by
\* an odd-length run of backslashes, the output is one character longer per
\* backslash or metacharacter of the input (no escape backslash is escaped
\* again), and removing one level of escaping gives back the input.
C5_EscapeRoundTrip ==
    Returned("_escape_markdown") =>
        LET text == call.args[1]
            out == ret.value
        IN  /\ \A i \in 1..Len(out) :
                    out[i] \in MetaSet => BackslashRun(out, i) % 2 = 1
            /\ Len(out) = Len(text)
                    + Cardinality({i \in 1..Len(text) : text[i] \in MetaSet \cup {"\\"}})
            /\ Unescape(out) = text

\* a backslash directly before a metacharacter was escaped
C5_Witness ==
    /\ Returned("_escape_markdown")
    /\ call.args[1] = <<"\\", "*">>
    /\ ret.value = <<"\\", "\\", "\\", "*">>

(***************************************************************************)
(* Properties of _apply_marks.                                             *)
(***************************************************************************)
Wrappers == {"strong", "em", "strike", "underline"}

MarkType(mark) == Get(mark, "type").a

\* the marks are wrapper marks, each at most once
WrapperMarksOnly(marks) ==
    /\ marks # <<>>
    /\ \A i \in 1..Len(marks) : MarkType(marks[i]) \in Wrappers
    /\ \A i, j \in 1..Len(marks) : marks[i] = marks[j] => i = j

MarkOpen(type) ==
    CASE type = "strong" -> <<"*", "*">>
      [] type = "em" -> <<"*">>
      [] type = "strike" -> <<"~", "~">>
      [] type = "underline" -> <<"<", "u", ">">>

MarkClose(type) ==
    CASE type = "strong" -> <<"*", "*">>
      [] type = "em" -> <<"*">>
      [] type = "strike" -> <<"~", "~">>
      [] type = "underline" -> <<"<", "/", "u", ">">>

\* the wrapper types among the marks, in the order strong, em, strike, underline
FixedOrder(marks) ==
    SelectSeq(<<"strong", "em", "strike", "underline">>,
              LAMBDA type : HasMark(marks, type))

\* value wrapped by the wrappers of types, the first innermost
Nested(value, types) ==
    Concat([i \in 1..Len(types) |-> MarkOpen(types[Len(types) + 1 - i])])
        \o value
        \o Concat([i \in 1..Len(types) |-> MarkClose(types[i])])

WrapperTypes(marks) ==
    LET wrappers == SelectSeq(marks, LAMBDA m : MarkType(m) \in Wrappers)
    IN  [i \in 1..Len(wrappers) |-> MarkType(wrappers[i])]

\* the href of the first link mark, empty when there is none
FirstHref(marks) ==
    LET links == SelectSeq(marks, LAMBDA m : MarkType(m) = "link")
    IN  IF links = <<>> THEN <<>> ELSE Get(Get(links[1], "attrs"), "href").s

C4_CodeMarkOverrides ==
    (Returned("_apply_marks") /\ HasMark(call.args[2], "code")) =>
        LET text == call.args[1]
            body == SubSeq(ret.value, 2, Len(ret.value) - 1)
        IN  /\ Len(ret.value) >= 2
            /\ ret.value[1] = Backtick
            /\ ret.value[Len(ret.value)] = Backtick
            /\ body = Concat([i \in 1..Len(text) |->
                                IF text[i] = Backtick THEN <<"\\", Backtick>>
                                ELSE <<text[i]>>])

\* a code mark after a strong mark, on a text with an asterisk and a backtick
C4_Witness ==
    /\ Returned("_apply_marks")
    /\ call.args[1] = <<"*", Backtick>>
    /\ call.args[2] = <<Mark("strong"), Mark("code")>>
    /\ ret.value = <<Backtick, "*", "\\", Backtick, Backtick>>


(***************************************************************************)
(* Properties of render_markdown.                                          *)
(***************************************************************************)
\* C1: render_markdown never raises: every call returns a string.
C1_NeverRaises == call.fn = "render_markdown" => ret.status # "raised"

\* the rules of document unwrapping, in their order: whether the rule
\* matches the value, and the document it picks
UnwrapRules(value) ==
    <<[matches |-> Get(value, "type") = Name("doc"), doc |-> value],
      [matches |-> IsDoc(Get(value, "body")), doc |-> Get(value, "body")],
      [matches |-> IsDoc(Get(value, "description")), doc |-> Get(value, "description")],
      [matches |-> IsList(Get(value, "content")) /\ Get(value, "version") # None,
       doc |-> value]>>

\* C2: render_markdown renders the document of the first unwrapping rule that
\* matches (the value itself of type doc, its body, its description, the
\* value with a content list and a version), and returns the empty string
\* when the value is no dict or no rule matches.
C2_FirstMatchingRule ==
    Returned("render_markdown") =>
        LET value == call.args[1]
            matching == IF IsDict(value)
                        THEN {i \in 1..4 : UnwrapRules(value)[i].matches}
                        ELSE {}
            first == CHOOSE i \in matching : \A j \in matching : i <= j
        IN  ret.value = IF matching = {} THEN <<>>
                        ELSE Render(UnwrapRules(value)[first].doc)

\* body and description are both documents and the value has a content list
\* and a version: the body is rendered
C2_Witness ==
    /\ Returned("render_markdown")
    /\ call.args[1] = Obj([body |-> DocA, description |-> DocB,
                           content |-> List(<<Paragraph(<<TextNode(<<"C">>)>>)>>),
                           version |-> Num(1)])
    /\ ret.value = <<"A">>


(***************************************************************************)
(* Properties of _render_paragraph_lines.                                  *)
(***************************************************************************)
BreakPositions(children) ==
    {i \in 1..Len(children) : TypeIs(children[i], "hardBreak")}

\* the position of the j-th hardBreak; 0 before the first and one past the
\* end after the last
BreakAt(children, j) ==
    IF j = 0 THEN 0
    ELSE IF j > Cardinality(BreakPositions(children)) THEN Len(children) + 1
    ELSE CHOOSE b \in BreakPositions(children) :
            Cardinality({c \in BreakPositions(children) : c <= b}) = j

\* the children between the (j-1)-th and the j-th hardBreak
Segment(children, j) ==
    SubSeq(children, BreakAt(children, j - 1) + 1, BreakAt(children, j) - 1)

\* C8: a paragraph with k hardBreak children renders to k + 1 lines; each of
\* the first k is the inline rendering of the children before that break,
\* right-trimmed, plus two spaces; the last is the inline rendering of the
\* children after the last break.
C8_HardBreakLines ==
    Returned("_render_paragraph_lines") =>
        LET children == Children(call.args[1])
            k == Cardinality(BreakPositions(children))
        IN  /\ Len(ret.value) = k + 1
            /\ \A j \in 1..k :
                ret.value[j] = RStrip(InlineText(Segment(children, j))) \o <<" ", " ">>
            /\ ret.value[k + 1] = InlineText(Segment(children, k + 1))

\* two breaks, the text before the first one ending in a space
C8_Witness ==
    /\ Returned("_render_paragraph_lines")
    /\ Cardinality(BreakPositions(Children(call.args[1]))) = 2
    /\ Len(ret.value) = 3
    /\ InlineText(Segment(Children(call.args[1]), 1)) = <<"a", "b", " ">>
    /\ ret.value[1] = <<"a", "b", " ", " ">>

(***************************************************************************)
(* Properties of _render_heading, called through _render_block.            *)
(***************************************************************************)
\* attrs.level, 1 when absent
LevelOf(node) ==
    IF "attrs" \in DOMAIN node.kv /\ "level" \in DOMAIN node.kv["attrs"].kv
    THEN node.kv["attrs"].kv["level"].n
    ELSE 1

\* C9: a heading is one line: L '#' with L = min(6, max(1, level)), a space
\* and the inline rendering of the children, right-trimmed; a heading
\* without content is the '#' run alone.
C9_HeadingLevelClamped ==
    (Returned("_render_block") /\ TypeIs(call.args[1], "heading")) =>
        LET node == call.args[1]
            L == Min(6, Max(1, LevelOf(node)))
            hashes == [i \in 1..L |-> "#"]
        IN  /\ Len(ret.value) = 1
            /\ ret.value[1] = RStrip(hashes \o <<" ">> \o InlineText(Children(node)))
            /\ SubSeq(ret.value[1], 1, L) = hashes
            /\ Children(node) = <<>> => ret.value[1] = hashes
            /\ LevelOf(node) = 9 => SubSeq(ret.value[1], 1, 6) = <<"#", "#", "#", "#", "#", "#">>
            /\ LevelOf(node) <= 0 => ret.value[1][1] = "#" /\ (Len(ret.value[1]) >= 2 => ret.value[1][2] = " ")

\* a heading of level 9 with text
C9_Witness ==
    /\ Returned("_render_block")
    /\ TypeIs(call.args[1], "heading")
    /\ LevelOf(call.args[1]) = 9
    /\ ret.value = <<<<"#", "#", "#", "#", "#", "#", " ", "a">>>>


(***************************************************************************)
(* Properties of _render_list.                                             *)
(***************************************************************************)
\* attrs.order, 1 when absent
OrderOf(node) ==
    IF "attrs" \in DOMAIN node.kv /\ "order" \in DOMAIN node.kv["attrs"].kv
    THEN node.kv["attrs"].kv["order"].n
    ELSE 1

\* line starts with prefix, and prefix is followed by a space or by nothing
HasMarker(line, prefix) ==
    /\ Len(line) >= Len(prefix)
    /\ SubSeq(line, 1, Len(prefix)) = prefix
    /\ Len(line) > Len(prefix) => line[Len(prefix) + 1] = " "

\* the number of lines an item takes
ItemHeight(item, list_level) == Len(RenderListItem(item, list_level, FALSE, 1))

RECURSIVE ItemOffset(_, _, _)
\* the number of lines before the i-th item
ItemOffset(items, list_level, i) ==
    IF i = 1 THEN 0
    ELSE ItemOffset(items, list_level, i - 1) + ItemHeight(items[i - 1], list_level)

\* the lines of the i-th item
ItemLines(lines, items, list_level, i) ==
    SubSeq(lines, ItemOffset(items, list_level, i) + 1,
           ItemOffset(items, list_level, i + 1))

\* the last child of item, when it is an ordered list
NestedOrdered(item) ==
    IF Children(item) # <<>> /\ TypeIs(Children(item)[Len(Children(item))], "orderedList")
    THEN <<Children(item)[Len(Children(item))]>>
    ELSE <<>>

\* C6: the i-th item (0-based) of an ordered list carries the marker
\* '<order+i>.', order being 1 when absent; every item of a bullet list
\* carries '-'; a nested ordered list numbers from its own order.
C6_ListNumbering ==
    Returned("_render_list") =>
        LET node == call.args[1]
            list_level == call.args[2]
            ordered == call.args[3]
            items == Children(node)
            indent == [c \in 1..(2 * list_level) |-> " "]
            deeper == [c \in 1..(2 * (list_level + 1)) |-> " "]
        IN  /\ Len(ret.value) = ItemOffset(items, list_level, Len(items) + 1)
            /\ \A i \in 1..Len(items) :
                LET lines == ItemLines(ret.value, items, list_level, i)
                    marker == IF ordered THEN IntToStr(OrderOf(node) + i - 1) \o <<".">>
                              ELSE <<"-">>
                IN  /\ HasMarker(lines[1], indent \o marker)
                    /\ \A n \in 1..Len(NestedOrdered(items[i])) :
                        LET inner == NestedOrdered(items[i])[n]
                            inner_lines == RenderList(inner, list_level + 1, TRUE)
                            tail == SubSeq(lines, Len(lines) - Len(inner_lines) + 1, Len(lines))
                        IN  /\ tail = inner_lines
                            /\ \A m \in 1..Len(Children(inner)) :
                                HasMarker(
                                    tail[ItemOffset(Children(inner), list_level + 1, m) + 1],
                                    deeper \o IntToStr(OrderOf(inner) + m - 1) \o <<".">>)

\* an ordered list from 5 with three items, the second one holding a nested
\* ordered list from 3
C6_Witness ==
    /\ Returned("_render_list")
    /\ call.args[3]
    /\ OrderOf(call.args[1]) = 5
    /\ ret.value = << <<"5", ".", " ", "a">>,
                      <<"6", ".", " ", "a">>,
                      <<" ", " ", "3", ".", " ", "a">>,
                      <<" ", " ", "4", ".">>,
                      <<"7", ".", " ", "a">> >>


(***************************************************************************)
(* Properties of _render_table.                                            *)
(***************************************************************************)
\* some cell of some row is a tableHeader
HasHeaderCell(rows) ==
    \E r \in 1..Len(rows) : \E c \in 1..Len(Children(rows[r])) :
        TypeIs(Children(rows[r])[c], "tableHeader")

\* the largest number of cells of a row
MaxCellCount(rows) ==
    CHOOSE n \in 0..MaxCells + 1 :
        /\ \A r \in 1..Len(rows) : Len(Children(rows[r])) <= n
        /\ n = 0 \/ \E r \in 1..Len(rows) : Len(Children(rows[r])) = n

\* the number of cells of a row line: one less than the number of bars
CellsOf(line) == Cardinality({i \in 1..Len(line) : line[i] = "|"}) - 1

\* the line of a row: its cells, padded to n
RowLine(row, n) ==
    PipeLine([c \in 1..n |->
        IF c <= Len(Children(row))
        THEN Strip(Join(<<"<", "b", "r", ">">>, RenderCell(Children(row)[c])))
        ELSE <<>>])

\* C7: a table of R >= 1 rows renders to R lines without a tableHeader cell
\* and to R + 1 lines with one, the separator being the second line; every
\* row line holds C cells, C the largest cell count; rows keep their order;
\* a table without rows renders to nothing.
C7_TableLineCount ==
    Returned("_render_table") =>
        LET rows == Children(call.args[1])
            R == Len(rows)
            C == MaxCellCount(rows)
            header == HasHeaderCell(rows)
            at(r) == IF header /\ r >= 2 THEN r + 1 ELSE r
        IN  /\ R = 0 => ret.value = <<>>
            /\ R >= 1 =>
                /\ Len(ret.value) = IF header THEN R + 1 ELSE R
                /\ header => ret.value[2] = PipeLine([c \in 1..C |-> <<"-", "-", "-">>])
                /\ \A r \in 1..R :
                    /\ ret.value[at(r)] = RowLine(rows[r], C)
                    /\ C >= 1 => CellsOf(ret.value[at(r)]) = C

(***************************************************************************)
(* Properties of _render_list_item.                                        *)
(***************************************************************************)
Spaces(n) == [c \in 1..n |-> " "]

IsListNode(node) == TypeIs(node, "bulletList") \/ TypeIs(node, "orderedList")

\* the number of lines a child block of an item takes
BlockHeight(block, list_level) == Len(RenderBlock(block, list_level))

RECURSIVE BlockOffset(_, _, _)
\* the number of lines before the i-th of blocks
BlockOffset(blocks, list_level, i) ==
    IF i = 1 THEN 0
    ELSE BlockOffset(blocks, list_level, i - 1) + BlockHeight(blocks[i - 1], list_level)

BlockTypes ==
    {"paragraph", "heading", "bulletList", "orderedList", "blockquote", "panel",
     "codeBlock", "rule", "table"}

IsUnknownBlock(node) == \A type \in BlockTypes : ~TypeIs(node, type)

\* C11: a block of unrecognized type renders to the collected text of its
\* descendants as a single line when that text is non-empty and to nothing
\* otherwise; the block gives at most one line, and the line holds no line
\* separator.
C11_UnknownBlockOneLine ==
    (Returned("_render_block") /\ IsUnknownBlock(call.args[1])) =>
        /\ ret.value = IF CollectText(call.args[1]) # <<>>
                       THEN <<CollectText(call.args[1])>> ELSE <<>>
        /\ Len(ret.value) <= 1
        /\ \A i \in 1..Len(ret.value) : \A c \in 1..Len(ret.value[i]) :
                ret.value[i][c] # "\n"

\* what holds of the fallback: the collected text, as one element, when it is
\* not empty
UnknownBlockCollectedText ==
    (Returned("_render_block") /\ IsUnknownBlock(call.args[1])) =>
        /\ ret.value = IF CollectText(call.args[1]) # <<>>
                       THEN <<CollectText(call.args[1])>> ELSE <<>>
        /\ Len(ret.value) <= 1


(***************************************************************************)
(* Properties of _render_code_block, called through _render_block.         *)
(***************************************************************************)
\* attrs.language, empty when absent, null or empty
LanguageOf(node) ==
    IF /\ "attrs" \in DOMAIN node.kv
       /\ node.kv["attrs"].t = "dict"
       /\ "language" \in DOMAIN node.kv["attrs"].kv
       /\ node.kv["attrs"].kv["language"].t = "str"
    THEN node.kv["attrs"].kv["language"].s
    ELSE <<>>

\* the number of lines of text: one per line separator, and one more for a
\* last line without one
SourceLineCount(text) ==
    Cardinality({i \in 1..Len(text) : text[i] = "\n"})
        + (IF text # <<>> /\ text[Len(text)] # "\n" THEN 1 ELSE 0)

\* text without the line separator that ends it, if any
WithoutLastSeparator(text) ==
    IF text # <<>> /\ text[Len(text)] = "\n" THEN SubSeq(text, 1, Len(text) - 1)
    ELSE text

\* C12: a codeBlock is a fence line of three backticks and attrs.language
\* (nothing when absent or empty), the lines of the collected text verbatim,
\* and a closing line of three backticks: 2 + max(1, source lines) lines,
\* an empty body giving one empty line.
C12_CodeBlockLines ==
    (Returned("_render_block") /\ TypeIs(call.args[1], "codeBlock")) =>
        LET code == CollectText(call.args[1])
            N == SourceLineCount(code)
            fence == <<Backtick, Backtick, Backtick>>
            body == SubSeq(ret.value, 2, Len(ret.value) - 1)
        IN  /\ Len(ret.value) = 2 + Max(1, N)
            /\ ret.value[1] = fence \o LanguageOf(call.args[1])
            /\ ret.value[Len(ret.value)] = fence
            /\ \A i \in 1..Len(body) : \A c \in 1..Len(body[i]) : body[i][c] # "\n"
            /\ N = 0 => body = <<<<>>>>
            /\ N >= 1 => Join(<<"\n">>, body) = WithoutLastSeparator(code)

\* a block in a language, its body two lines with Markdown metacharacters
C12_Witness ==
    /\ Returned("_render_block")
    /\ TypeIs(call.args[1], "codeBlock")
    /\ ret.value = << <<Backtick, Backtick, Backtick, "p", "y">>,
                      <<Backtick, "*">>,
                      <<"x">>,
                      <<Backtick, Backtick, Backtick>> >>


(***************************************************************************)
(* Properties of the pagination loops.                                     *)
(***************************************************************************)
\* C13: the pagination loops of fetch_comments and fetch_assigned_tickets
\* terminate, whatever total, startAt and maxResults the server reports in
\* its answers.
C13_PaginationTerminates == <>(ret.status # "pending")


(***************************************************************************)
(* Properties of the request modes of fetch_assigned_tickets.              *)
(***************************************************************************)
\* the mode tried after mode, in the order post-object, post-string, get
NextMode(mode) ==
    CASE mode = Name("post-object") -> Name("post-string")
      [] mode = Name("post-string") -> Name("get")
      [] OTHER -> None

Fallible == {Num(400), Num(405)}

\* C14: the search tries post-object, post-string, get in this order, the
\* next mode only after the previous request failed with HTTP 400 or 405;
\* any other HTTP error is raised at once; when all three fail with 400 or
\* 405 the last error is raised; once a mode has succeeded every later
\* page is requested with it, without fallback.
C14_ModeFallbackOrder ==
    [][call.fn = "fetch_assigned_tickets" =>
        \* the first request
        /\ sent = None => sent'.mode = Name("post-object")
        \* a further request before any has succeeded
        /\ (sent # None /\ request_mode = None) =>
            /\ last_error \in Fallible
            /\ sent'.mode = NextMode(sent.mode)
        \* a request once one has succeeded
        /\ request_mode # None =>
            /\ sent'.mode = request_mode
            /\ request_mode' = request_mode
            /\ last_error' = last_error
        \* the mode kept is the mode of the request that succeeded
        /\ (request_mode = None /\ request_mode' # None) => request_mode' = sent'.mode
        \* a request that fails before any has succeeded
        /\ (request_mode = None /\ request_mode' = None) =>
            /\ last_error' # None
            /\ last_error' \notin Fallible => ret' = Raised(last_error'.n)
            /\ sent'.mode = Name("get") => ret' = Raised(last_error'.n)
            /\ (last_error' \in Fallible /\ sent'.mode # Name("get")) => ret' = Pending
    ]_vars

\* a second page requested with get, after post-object and post-string have
\* failed with 400 or 405 and get has succeeded
C14_Witness ==
    /\ call.fn = "fetch_assigned_tickets"
    /\ request_mode = Name("get")
    /\ last_error \in Fallible
    /\ sent.mode = Name("get")
    /\ sent.startAt > 0

=============================================================================
